---- MODULE Spec2Model ----
(***************************************************************************)
(* The LINE webhook's chat-command interpreter                             *)
(* (src/app/api/line/webhook/route.ts, second variant, lines 439-796)      *)
(* and the dashboard (src/app/page.tsx, lines 1-643) over the tasks table.  *)
(* A behaviour handles one webhook request, or one visit of the dashboard. *)
(* A call the dashboard awaits is served by the store in one step and its  *)
(* answer arrives in a later step; answers arrive in any order.            *)
(* Spec has both parts; DashboardSpec is the dashboard alone with more     *)
(* events and with calls that overlap.                                     *)
(*                                                                         *)
(* Text is a sequence of symbols.  A symbol is one character, except that  *)
(* the Japanese keywords of the regular expressions are one symbol each    *)
(* (TLA+ strings are ASCII, so they are written in romaji):                *)
(*   "wa" は  "wo" を  "to" と  "ten" 、  "ni_shusei" に修正  "LF" newline     *)
(*   "FW1" １  "FW3" ３  "FWS" Ｓ  "FWSP" full-width space                    *)
(*   status words   "kanryo" 完了  "sakujo" 削除  "shinkochu" 進行中           *)
(*                  "kaihatsuchu" 開発中  "horyu" 保留  "seikan" 静観          *)
(*                  "modosu" 戻す                                           *)
(*   status values  the status words, and "mishori" 未処理,                  *)
(*                  "sakujozumi" 削除済み                                     *)
(*   meta commands  "ichiran" 一覧  "tsukaikata" 使い方                       *)
(*                  "dashboard" ダッシュボード                                 *)
(***************************************************************************)
EXTENDS Integers, Sequences, FiniteSets, TLC

VARIABLES
    store,          \* the tasks table: a sequence of rows in the order the store returns them
    pc,             \* position of handleMessage: "idle", "loop", "reply", "done";
                    \* "page" while the dashboard is open
    userId,         \* handleMessage's userId
    text,           \* handleMessage's text (raw)
    lines,          \* handleMessage's lines
    i,              \* index of the next line of the for loop
    tasks,          \* handleMessage's tasks: the list fetched before the loop
    commandResults, \* handleMessage's commandResults
    taskLines,      \* handleMessage's taskLines
    ops,            \* history: the store calls issued for this message, in order
    aiCalls,        \* history: the calls of analyzeTasksWithAI, each with its text and answer
    replies,        \* history: the messages sent with client.replyMessage
    store0,         \* history: the table when the message arrived
    faults,         \* history: number of store calls that failed so far
    request,        \* POST: the body, the x-line-signature header and the channel secret read
    response,       \* POST: the status of the response, 0 while there is none
    userIdFromUrl,  \* Dashboard: the user of the ?u= parameter
    pageTasks,      \* Dashboard: the tasks state
    newTaskValue,   \* Dashboard: the text of the quick-add input box
    isAdding,       \* Dashboard: the isAdding state
    error,          \* Dashboard: the error banner, "none" when there is none
    inflight,       \* Dashboard: the awaited calls whose answer has not arrived yet, each
                    \* with whether the store has served it and with what it answered
    gesture,        \* history: the last event of the dashboard
    gestures,       \* history: number of events of the dashboard so far
    analyses        \* history: the answers of /api/tasks/analyze, each with the text sent

pageVars == <<userIdFromUrl, pageTasks, newTaskValue, isAdding, error, inflight, gesture,
              gestures, analyses>>

vars == <<store, pc, userId, text, lines, i, tasks, commandResults, taskLines,
          ops, aiCalls, replies, store0, faults, request, response, pageVars>>

----------------------------------------------------------------------------
(* Bounds *)

MaxTasks == 3       \* rows in the table when the message arrives
MaxLines == 2       \* lines of a multi-line message
MaxProposals == 2   \* proposals in one classifier answer
MaxFaults == 1      \* store calls that fail while one message is handled
MaxGestures == 2    \* events of one visit of the dashboard
MaxInflight == 1    \* awaited calls of the dashboard that are pending at once
MaxVisitGestures == 3   \* events of one visit in DashboardSpec
MaxVisitInflight == 2   \* awaited calls that are pending at once in DashboardSpec

----------------------------------------------------------------------------
(* Symbols *)

DigitChars == {"0", "1", "2", "3"}
DigitVal(c) == CASE c = "0" -> 0 [] c = "1" -> 1 [] c = "2" -> 2 [] c = "3" -> 3

Connectors == {"wa", "wo"}                      \* [はを]
UpperLetters == {"S", "A", "B", "C"}
LowerLetters == {"s", "a", "b", "c"}
Separators == {" ", "to", "ten", ","}
IndexChars == DigitChars \cup Separators        \* [\d\sと、,]
statusWords == {"kanryo", "sakujo", "shinkochu", "kaihatsuchu", "horyu", "seikan", "modosu"}

toUpperCase(c) ==
    CASE c = "s" -> "S" [] c = "a" -> "A" [] c = "b" -> "B" [] c = "c" -> "C" [] OTHER -> c

----------------------------------------------------------------------------
(* Strings *)

\* Array.prototype.join("\n")
RECURSIVE Join(_)
Join(ls) ==
    IF ls = <<>> THEN <<>>
    ELSE IF Len(ls) = 1 THEN ls[1]
    ELSE ls[1] \o <<"LF">> \o Join(Tail(ls))

\* String.prototype.split(/\r?\n/)
RECURSIVE Split(_)
Split(s) ==
    IF \A k \in 1..Len(s) : s[k] # "LF" THEN <<s>>
    ELSE LET k == CHOOSE k \in 1..Len(s) : s[k] = "LF" /\ \A j \in 1..(k - 1) : s[j] # "LF"
         IN  <<SubSeq(s, 1, k - 1)>> \o Split(SubSeq(s, k + 1, Len(s)))

\* number of leading symbols of s that are in the class cls
RECURSIVE LeadingIn(_, _)
LeadingIn(s, cls) ==
    IF s = <<>> \/ Head(s) \notin cls THEN 0 ELSE 1 + LeadingIn(Tail(s), cls)

RECURSIVE TrailingIn(_, _)
TrailingIn(s, cls) ==
    IF s = <<>> \/ s[Len(s)] \notin cls THEN 0 ELSE 1 + TrailingIn(SubSeq(s, 1, Len(s) - 1), cls)

Whitespace == {" ", "LF"}

DropLeading(s, cls) == SubSeq(s, LeadingIn(s, cls) + 1, Len(s))
DropTrailing(s, cls) == SubSeq(s, 1, Len(s) - TrailingIn(s, cls))

\* String.prototype.trim()
trim(s) == DropTrailing(DropLeading(s, Whitespace), Whitespace)

\* text.replace(/[！-～]/g, s => fromCharCode(s - 0xfee0)).replace(/　/g, " ")
HalfWidth(c) ==
    CASE c = "FW1" -> "1" [] c = "FW3" -> "3" [] c = "FWS" -> "S" [] c = "FWSP" -> " "
      [] OTHER -> c

normalize(s) == trim([k \in 1..Len(s) |-> HalfWidth(s[k])])

\* parseInt(ds, 10) of a run of digits
RECURSIVE parseInt(_)
parseInt(ds) ==
    IF ds = <<>> THEN 0 ELSE 10 * parseInt(SubSeq(ds, 1, Len(ds) - 1)) + DigitVal(ds[Len(ds)])

\* s.split(/[^\d]+/).filter(Boolean).map(n => parseInt(n, 10))
RECURSIVE targetIndices(_)
targetIndices(s) ==
    LET t == DropLeading(s, IndexChars \ DigitChars)
        d == LeadingIn(t, DigitChars)
    IN  IF t = <<>> THEN <<>>
        ELSE <<parseInt(SubSeq(t, 1, d))>> \o targetIndices(SubSeq(t, d + 1, Len(t)))

----------------------------------------------------------------------------
(* The regular expressions of handleMessage.  Each operator gives          *)
(* [ok |-> whether the line matches, ...the captured groups].              *)

NoMatch == [ok |-> FALSE]

\* /^(\d+)\s*[はを]\s*(.+)\s*に修正$/
editRegex(line) ==
    LET n == Len(line)
        d == LeadingIn(line, DigitChars)
        c == d + LeadingIn(SubSeq(line, d + 1, n), Whitespace) + 1   \* where [はを] must be
        R == SubSeq(line, c + 1, n - 1)       \* between the connector and the final に修正
        k == LeadingIn(R, {" "})
    IN  IF d >= 1 /\ c <= n /\ line[c] \in Connectors /\ line[n] = "ni_shusei" /\ Len(R) >= 1
        THEN [ok |-> TRUE,
              idx |-> parseInt(SubSeq(line, 1, d)),
              \* \s* is greedy and (.+) takes the rest, trailing blanks included; when
              \* only blanks are left, \s* gives one back to (.+)
              title |-> IF k < Len(R) THEN SubSeq(R, k + 1, Len(R)) ELSE <<R[Len(R)]>>]
        ELSE NoMatch

\* /^(\d+)\s*[はを]?\s*([SABC])\s*$/i
priorityRegex(line) ==
    LET d == LeadingIn(line, DigitChars)
        r1 == DropLeading(SubSeq(line, d + 1, Len(line)), Whitespace)
        r2 == IF r1 # <<>> /\ Head(r1) \in Connectors THEN Tail(r1) ELSE r1
        r3 == DropLeading(r2, Whitespace)
    IN  IF d >= 1 /\ r3 # <<>> /\ Head(r3) \in UpperLetters \cup LowerLetters
              /\ DropLeading(Tail(r3), Whitespace) = <<>>
        THEN [ok |-> TRUE, idx |-> parseInt(SubSeq(line, 1, d)), letter |-> Head(r3)]
        ELSE NoMatch

\* new RegExp(`^([\\d\\sと、,]+)\\s*[はを]?\\s*(${statusWords})$`)
statusEndRegex(line) ==
    LET n == Len(line)
        P == SubSeq(line, 1, n - 1)
        Q == DropTrailing(P, Whitespace)
        G == IF Q # <<>> /\ Q[Len(Q)] \in Connectors THEN SubSeq(Q, 1, Len(Q) - 1) ELSE P
    IN  IF n >= 2 /\ line[n] \in statusWords /\ G # <<>> /\ LeadingIn(G, IndexChars) = Len(G)
        THEN [ok |-> TRUE, group |-> G, statusStr |-> line[n]]
        ELSE NoMatch

\* new RegExp(`^(${statusWords})\\s*([\\d\\sと、,]+)$`)
commandStartRegex(line) ==
    LET G == SubSeq(line, 2, Len(line))
    IN  IF Len(line) >= 2 /\ line[1] \in statusWords /\ LeadingIn(G, IndexChars) = Len(G)
        THEN [ok |-> TRUE, group |-> G, statusStr |-> line[1]]
        ELSE NoMatch

\* mutant: /^\d+(\s|$)/
leadingDigitTestBlank(line) ==
    LET d == LeadingIn(line, DigitChars)
    IN  d >= 1 /\ (d = Len(line) \/ line[d + 1] \in Whitespace)

\* /^\d+(\s|は|を|$)/.test(line)
leadingDigitTest(line) ==
    LET d == LeadingIn(line, DigitChars)
    IN  d >= 1 /\ (d = Len(line) \/ line[d + 1] \in Whitespace \cup Connectors)

----------------------------------------------------------------------------
(* The tasks table *)

Users == {"U1", "U2"}
PrioritySet == {"S", "A", "B", "C", "DEV", "IDEA"}          \* type Priority
StatusSet == {"mishori", "shinkochu", "kaihatsuchu", "kanryo", "horyu", "seikan", "sakujozumi"}

\* the status a row gets when the insert names none
DefaultStatus == "mishori"

Ids(st) == {st[k].id : k \in 1..Len(st)}
Row(st, id) == st[CHOOSE k \in 1..Len(st) : st[k].id = id]

Max(S) == IF S = {} THEN 0 ELSE CHOOSE m \in S : \A n \in S : n <= m
NewId(st) == 1 + Max(Ids(st))
Now(st) == 1 + Max({st[k].created_at : k \in 1..Len(st)})

\* supabase.from('tasks').update(set).eq('id', id)
Merge(row, set) == [f \in DOMAIN row |-> IF f \in DOMAIN set THEN set[f] ELSE row[f]]
Update(st, id, set) == [k \in 1..Len(st) |-> IF st[k].id = id THEN Merge(st[k], set) ELSE st[k]]

\* mutant: newTasks as they are, without the owner
insertPayloadNoOwner(newTasks, u) ==
    [k \in 1..Len(newTasks) |->
        [title |-> newTasks[k].title, category |-> newTasks[k].category,
         priority |-> newTasks[k].priority, user_id |-> "null"]]

\* newTasks.map((t: any) => ({ ...t, user_id: userId }))
insertPayload(newTasks, u) ==
    [k \in 1..Len(newTasks) |->
        [title |-> newTasks[k].title, category |-> newTasks[k].category,
         priority |-> newTasks[k].priority, user_id |-> u]]

\* supabase.from('tasks').insert(payload): one statement, so one created_at for all rows
Insert(st, payload) ==
    st \o [k \in 1..Len(payload) |->
            [id |-> NewId(st) + k - 1, user_id |-> payload[k].user_id,
             title |-> payload[k].title, category |-> payload[k].category,
             priority |-> payload[k].priority,
             status |-> IF "status" \in DOMAIN payload[k] THEN payload[k].status
                        ELSE DefaultStatus,
             created_at |-> Now(st)]]

----------------------------------------------------------------------------
(* fetchActiveTasks *)

\* priorityOrder[p] ?? 3
priorityOrder(p) ==
    CASE p = "S" -> 0 [] p = "A" -> 1 [] p = "B" -> 2 [] p = "C" -> 3 [] OTHER -> 3

\* mutant: the newest first within one rank
compareNewestFirst(a, b) ==
    IF priorityOrder(a.priority) # priorityOrder(b.priority)
    THEN priorityOrder(a.priority) - priorityOrder(b.priority)
    ELSE b.created_at - a.created_at

\* the comparator given to sort
compare(a, b) ==
    IF priorityOrder(a.priority) # priorityOrder(b.priority)
    THEN priorityOrder(a.priority) - priorityOrder(b.priority)
    ELSE a.created_at - b.created_at

\* Array.prototype.sort is stable: t goes after every element that does not sort after it
InsertSorted(s, t) ==
    LET k == Cardinality({j \in 1..Len(s) : compare(s[j], t) <= 0})
    IN  SubSeq(s, 1, k) \o <<t>> \o SubSeq(s, k + 1, Len(s))

RECURSIVE sort(_)
sort(data) ==
    IF data = <<>> THEN <<>> ELSE InsertSorted(sort(SubSeq(data, 1, Len(data) - 1)), data[Len(data)])

\* mutant: without the filter on the owner
activeFilterAnyUser(r, u) == r.status # "sakujozumi" /\ r.status # "kanryo"

\* .eq('user_id', userId).not('status', 'eq', '削除済み').not('status', 'eq', '完了')
activeFilter(r, u) == r.user_id = u /\ r.status # "sakujozumi" /\ r.status # "kanryo"

\* fetchActiveTasks(userId); ok is whether the select succeeded
fetchActiveTasks(st, u, ok) ==
    IF ~ok THEN <<>> ELSE sort(SelectSeq(st, LAMBDA r : activeFilter(r, u)))

----------------------------------------------------------------------------
(* handleMessage: one line of the for loop *)

Result(kind, subject, detail, n) == [kind |-> kind, subject |-> subject, detail |-> detail, n |-> n]

\* mutant: a position whose task an earlier line completed or deleted is empty
hasTaskStillActive(ts, idx) ==
    /\ 1 <= idx /\ idx <= Len(ts)
    /\ Row(store, ts[idx].id).status \notin {"kanryo", "sakujozumi"}

\* tasks[idx - 1] is a task
hasTask(ts, idx) == 1 <= idx /\ idx <= Len(ts)

\* mutant: the word itself
newStatusWord(statusStr) == statusStr

\* statusStr === '削除' ? '削除済み' : (statusStr === '戻す' ? '未処理' : statusStr)
newStatus(statusStr) ==
    IF statusStr = "sakujo" THEN "sakujozumi"
    ELSE IF statusStr = "modosu" THEN "mishori" ELSE statusStr

\* mutant: the priority alone
priorityUpdateOnly(priority) == [priority |-> priority]

\* .update({ priority, status: '未処理' })
priorityUpdate(priority) == [priority |-> priority, status |-> "mishori"]

\* for (const idx of targetIndices) if (tasks[idx - 1]) { update; push }
RECURSIVE statusPlan(_, _, _)
statusPlan(idxs, ts, statusStr) ==
    IF idxs = <<>> THEN [updates |-> <<>>, results |-> <<>>]
    ELSE LET rest == statusPlan(Tail(idxs), ts, statusStr)
             idx == Head(idxs)
         IN  IF hasTask(ts, idx)
             THEN [updates |-> <<[id |-> ts[idx].id, set |-> [status |-> newStatus(statusStr)]]>>
                               \o rest.updates,
                   results |-> <<Result("status", ts[idx].title, <<statusStr>>, 0)>>
                               \o rest.results]
             ELSE rest

\* the body of the for loop for one line: the store updates it issues, the entries it
\* pushes to commandResults, and whether it pushes the line to taskLines
dispatch(line, ts) ==
    LET e == editRegex(line)
        p == priorityRegex(line)
        se == statusEndRegex(line)
        cs == commandStartRegex(line)
    IN  IF e.ok /\ hasTask(ts, e.idx)
        THEN [branch |-> "edit",
              updates |-> <<[id |-> ts[e.idx].id, set |-> [title |-> e.title]]>>,
              results |-> <<Result("edit", ts[e.idx].title, e.title, 0)>>,
              forward |-> FALSE]
        ELSE IF p.ok /\ hasTask(ts, p.idx)
        THEN [branch |-> "priority",
              updates |-> <<[id |-> ts[p.idx].id, set |-> priorityUpdate(toUpperCase(p.letter))]>>,
              results |-> <<Result("priority", ts[p.idx].title, <<toUpperCase(p.letter)>>, 0)>>,
              forward |-> FALSE]
        ELSE IF se.ok
        THEN LET plan == statusPlan(targetIndices(se.group), ts, se.statusStr)
             IN  [branch |-> "statusEnd", updates |-> plan.updates, results |-> plan.results,
                  forward |-> FALSE]
        ELSE IF cs.ok
        THEN LET plan == statusPlan(targetIndices(cs.group), ts, cs.statusStr)
             IN  [branch |-> "commandStart", updates |-> plan.updates, results |-> plan.results,
                  forward |-> FALSE]
        ELSE IF leadingDigitTest(line)
        THEN [branch |-> "warn", updates |-> <<>>,
              results |-> <<Result("notRecognized", line, <<>>, 0)>>, forward |-> FALSE]
        ELSE [branch |-> "taskLine", updates |-> <<>>, results |-> <<>>, forward |-> TRUE]

\* the awaited updates of one line, in order; those in failed return an error
RECURSIVE applyUpdates(_, _, _, _)
applyUpdates(st, updates, failed, k) ==
    IF k > Len(updates) THEN st
    ELSE applyUpdates(IF k \in failed THEN st ELSE Update(st, updates[k].id, updates[k].set),
                      updates, failed, k + 1)

updateOps(updates, failed) ==
    [k \in 1..Len(updates) |->
        [op |-> "update", id |-> updates[k].id, set |-> updates[k].set, ok |-> k \notin failed]]

----------------------------------------------------------------------------
(* Inputs *)

\* the rows a table holds when a message arrives: owner, priority, status
InitRowKinds ==
    { [user_id |-> "U1", priority |-> "B", status |-> "shinkochu"],
      [user_id |-> "U1", priority |-> "DEV", status |-> "horyu"],
      [user_id |-> "U2", priority |-> "S", status |-> "mishori"] }

InitStoreOf(f) ==
    [k \in DOMAIN f |->
        [id |-> k, user_id |-> f[k].user_id, title |-> <<"x">>, category |-> "cat",
         priority |-> f[k].priority, status |-> f[k].status, created_at |-> k]]

InitStores == UNION { {InitStoreOf(f) : f \in [1..n -> InitRowKinds]} : n \in 0..MaxTasks }

\* what the classifier answers, whatever the text: the first n proposals of one of these
\* lists (an empty answer is also what a failed call or an answer without JSON gives)
ProposalLists ==
    { << [title |-> <<"x">>, category |-> "daily", priority |-> "C"],
         [title |-> <<"y">>, category |-> "work", priority |-> "S"],
         [title |-> <<"x">>, category |-> "work", priority |-> "C"] >>,
      << [title |-> <<"y">>, category |-> "work", priority |-> "URGENT"],
         [title |-> <<"x">>, category |-> "daily", priority |-> "A"],
         [title |-> <<"y">>, category |-> "daily", priority |-> "S"] >> }

AIAnswers == { SubSeq(a, 1, n) : a \in ProposalLists, n \in 0..MaxProposals }

Numerals == { <<"0">>, <<"1">>, <<"2">>, <<"3">> }

RenameLines ==
    { n \o <<"wa">> \o t \o <<"ni_shusei">> : n \in {<<"0">>, <<"1">>}, t \in {<<"x">>, <<" ">>} }
    \cup { <<"1", " ", "wo", " ", "y", " ", "ni_shusei">>, <<"3", "wa", "y", "ni_shusei">>,
           <<"1", " ", "wa", " ", "x", " ", "ni_shusei">> }

PriorityLines ==
    { n \o <<"S">> : n \in Numerals }
    \cup { <<"1", " ", "C">>, <<"1", "wo", "s">>, <<"2", " ", "wa", " ", "B">>,
           <<"1", "0", "A">>, <<"FW1", "FWSP", "FWS">> }

StatusEndLines ==
    { n \o <<"sakujo">> : n \in {<<"0">>, <<"1">>, <<"3">>} }
    \cup { <<"1", "to", "3", "wo", "sakujo">>, <<"1", " ", "2", "kanryo">>,
           <<"2", "wa", "modosu">>, <<"1", ",", "1", "seikan">>, <<"to", "kanryo">>,
           <<"0", "1", "horyu">> }

CommandStartLines ==
    { <<"sakujo", " ", "1", " ", "3">>, <<"sakujo", "0">>, <<"kanryo", "2">>,
      <<"shinkochu", "1", "ten", "2">>, <<"kaihatsuchu", " ", "3", "FWSP", "1">> }

OtherLines ==
    { <<"1">>, <<"1", " ", "x">>, <<"2", "wa">>, <<"1", "x">>, <<"x">>,
      <<"kanryo">>, <<" ", "y", " ">>, <<" ">>, <<"y", "LF", " ", "LF", "2", "S">>,
      <<"ichiran">>, <<" ", "ichiran">>, <<"tsukaikata">>, <<"dashboard">> }

SingleLines == RenameLines \cup PriorityLines \cup StatusEndLines \cup CommandStartLines
               \cup OtherLines

\* the lines of the messages of several lines
MultiLines ==
    { <<"1", "S">>, <<"1", "kanryo">>, <<"x">> }

Messages ==
    SingleLines \cup UNION { {Join(ls) : ls \in [1..n -> MultiLines]} : n \in 2..MaxLines }

----------------------------------------------------------------------------
(* POST and handleMessage *)

NoRequest == [body |-> <<>>, signature |-> <<>>, channelSecret |-> ""]
NoGesture == [kind |-> "none"]

\* process.env.LINE_CHANNEL_SECRET || "", and the keys a sender may sign with
ChannelSecrets == {"", "key"}
SenderKeys == {"key", "forged"}

\* event.replyToken of the message event of a sender
ReplyToken(u) == IF u = "U1" THEN "token1" ELSE "token2"

\* the body of a request with one text message event
Body(u, t) == [userId |-> u, text |-> t, replyToken |-> ReplyToken(u)]

\* the signature of a body under a key
hmac(body, key) == [key |-> key, body |-> body]

\* mutant: any signature is taken
validateSignatureAny(body, channelSecret, signature) == TRUE

\* validateSignature(body, channelSecret, signature) of @line/bot-sdk
validateSignature(body, channelSecret, signature) == signature = hmac(body, channelSecret)

Request(u, t, key, secret) ==
    [body |-> Body(u, t), signature |-> hmac(Body(u, t), key), channelSecret |-> secret]

\* POST up to the call of handleMessage: the secret is set and the signature validates
Accepted(req) ==
    /\ req.channelSecret # ""
    /\ validateSignature(req.body, req.channelSecret, req.signature)

Init ==
    /\ store \in InitStores
    /\ store0 = store
    /\ pc = "idle"
    /\ userId = "none"
    /\ text = <<>>
    /\ lines = <<>>
    /\ i = 1
    /\ tasks = <<>>
    /\ commandResults = <<>>
    /\ taskLines = <<>>
    /\ ops = <<>>
    /\ aiCalls = <<>>
    /\ replies = <<>>
    /\ faults = 0
    /\ request = NoRequest
    /\ response = 0
    /\ userIdFromUrl = "none"
    /\ pageTasks = <<>>
    /\ newTaskValue = <<>>
    /\ isAdding = FALSE
    /\ error = "none"
    /\ inflight = <<>>
    /\ gesture = NoGesture
    /\ gestures = 0
    /\ analyses = <<>>

\* a store call may fail while the budget of faults lasts
MayBe(ok) == ok \/ faults < MaxFaults
Fault(ok) == IF ok THEN 0 ELSE 1

SelectOp(u, ok) == [op |-> "select", user |-> u, ok |-> ok]

\* mutant: every reply is sent with the token of another event
ReplyStaleToken(replyToken, kind, results, list, subject) ==
    [replyToken |-> "token1", kind |-> kind, results |-> results, list |-> list,
     subject |-> subject]

\* client.replyMessage({ replyToken, messages })
Reply(replyToken, kind, results, list, subject) ==
    [replyToken |-> replyToken, kind |-> kind, results |-> results, list |-> list,
     subject |-> subject]

ListWords == {"ichiran"}
HelpWords == {"tsukaikata"}
DashboardWords == {"dashboard"}

\* POST: LINE_CHANNEL_SECRET is not set
PostNoSecret(u, t, key) ==
    /\ pc = "idle"
    /\ request' = Request(u, t, key, "")
    /\ response' = 500
    /\ pc' = "done"
    /\ UNCHANGED <<store, store0, userId, text, lines, i, tasks, commandResults, taskLines,
                   ops, aiCalls, replies, faults, pageVars>>

\* POST: the signature does not validate
PostInvalidSignature(u, t, key, secret) ==
    /\ pc = "idle"
    /\ secret # ""
    /\ ~validateSignature(Body(u, t), secret, hmac(Body(u, t), key))
    /\ request' = Request(u, t, key, secret)
    /\ response' = 401
    /\ pc' = "done"
    /\ UNCHANGED <<store, store0, userId, text, lines, i, tasks, commandResults, taskLines,
                   ops, aiCalls, replies, faults, pageVars>>

\* 0. Global Commands: 一覧
ReceiveList(u, t) ==
    /\ pc = "idle"
    /\ normalize(t) \in {<<w>> : w \in ListWords}
    /\ \E ok \in BOOLEAN :
        /\ MayBe(ok)
        /\ ops' = Append(ops, SelectOp(u, ok))
        /\ faults' = faults + Fault(ok)
        /\ replies' = Append(replies, Reply(ReplyToken(u), "flex", <<>>, fetchActiveTasks(store, u, ok), <<>>))
    /\ \E key \in SenderKeys, secret \in ChannelSecrets :
        /\ Accepted(Request(u, t, key, secret))
        /\ request' = Request(u, t, key, secret)
    /\ response' = 200
    /\ userId' = u
    /\ text' = t
    /\ pc' = "done"
    /\ UNCHANGED <<store, store0, lines, i, tasks, commandResults, taskLines, aiCalls, pageVars>>

\* 0. Global Commands: 使い方, ダッシュボード
ReceiveHelp(u, t) ==
    /\ pc = "idle"
    /\ normalize(t) \in {<<w>> : w \in HelpWords \cup DashboardWords}
    /\ replies' = Append(replies,
                    Reply(ReplyToken(u),
                          IF normalize(t)[1] \in HelpWords THEN "help" ELSE "dashboard",
                          <<>>, <<>>, <<>>))
    /\ \E key \in SenderKeys, secret \in ChannelSecrets :
        /\ Accepted(Request(u, t, key, secret))
        /\ request' = Request(u, t, key, secret)
    /\ response' = 200
    /\ userId' = u
    /\ text' = t
    /\ pc' = "done"
    /\ UNCHANGED <<store, store0, lines, i, tasks, commandResults, taskLines, ops, aiCalls,
                   faults, pageVars>>

\* 1. Parse Commands Systematically: split the lines, fetch the list
ReceiveCommands(u, t) ==
    /\ pc = "idle"
    /\ normalize(t) \notin {<<w>> : w \in ListWords \cup HelpWords \cup DashboardWords}
    /\ lines' = SelectSeq([k \in 1..Len(Split(normalize(t))) |-> trim(Split(normalize(t))[k])],
                          LAMBDA l : l # <<>>)
    /\ \E ok \in BOOLEAN :
        /\ MayBe(ok)
        /\ ops' = Append(ops, SelectOp(u, ok))
        /\ faults' = faults + Fault(ok)
        /\ tasks' = fetchActiveTasks(store, u, ok)
    /\ \E key \in SenderKeys, secret \in ChannelSecrets :
        /\ Accepted(Request(u, t, key, secret))
        /\ request' = Request(u, t, key, secret)
    /\ userId' = u
    /\ text' = t
    /\ i' = 1
    /\ pc' = "loop"
    /\ UNCHANGED <<store, store0, commandResults, taskLines, aiCalls, replies, response,
                   pageVars>>

\* for (const line of lines) { ... }
HandleLine ==
    /\ pc = "loop"
    /\ i <= Len(lines)
    /\ LET plan == dispatch(lines[i], tasks)
       IN  /\ \E failed \in SUBSET (1..Len(plan.updates)) :
                /\ faults + Cardinality(failed) <= MaxFaults
                /\ store' = applyUpdates(store, plan.updates, failed, 1)
                /\ ops' = ops \o updateOps(plan.updates, failed)
                /\ faults' = faults + Cardinality(failed)
           /\ commandResults' = commandResults \o plan.results
           /\ taskLines' = IF plan.forward THEN Append(taskLines, lines[i]) ELSE taskLines
    /\ i' = i + 1
    /\ UNCHANGED <<pc, userId, text, lines, tasks, aiCalls, replies, store0, request, response,
                   pageVars>>

\* 2. Finalize Results: the batch of task lines
Analyze ==
    /\ pc = "loop"
    /\ i > Len(lines)
    /\ IF taskLines # <<>>
       THEN \E newTasks \in AIAnswers :
                /\ aiCalls' = Append(aiCalls, [text |-> Join(taskLines), answer |-> newTasks])
                /\ IF newTasks # <<>>
                   THEN \E ok \in BOOLEAN :
                        /\ MayBe(ok)
                        /\ store' = IF ok THEN Insert(store, insertPayload(newTasks, userId))
                                    ELSE store
                        /\ ops' = Append(ops, [op |-> "insert",
                                               rows |-> insertPayload(newTasks, userId),
                                               ok |-> ok])
                        /\ faults' = faults + Fault(ok)
                        /\ commandResults' = Append(commandResults,
                               IF ok THEN Result("added", <<>>, <<>>, Len(newTasks))
                               ELSE Result("insertFailed", <<>>, <<>>, 0))
                   ELSE /\ commandResults' =
                               IF commandResults = <<>>
                               THEN <<Result("notExtracted", Join(taskLines), <<>>, 0)>>
                               ELSE commandResults
                        /\ UNCHANGED <<store, ops, faults>>
       ELSE UNCHANGED <<store, ops, faults, aiCalls, commandResults>>
    /\ pc' = "reply"
    /\ UNCHANGED <<userId, text, lines, i, tasks, taskLines, replies, store0, request, response,
                   pageVars>>

\* mutant: the list fetched before the loop
updatedTasksStale(st, u, ok) == tasks

\* const updatedTasks = await fetchActiveTasks(userId)
updatedTasks(st, u, ok) == fetchActiveTasks(st, u, ok)

\* the reply: the results with the list fetched again, or "could not understand"
SendReply ==
    /\ pc = "reply"
    /\ IF commandResults # <<>>
       THEN \E ok \in BOOLEAN :
            /\ MayBe(ok)
            /\ ops' = Append(ops, SelectOp(userId, ok))
            /\ faults' = faults + Fault(ok)
            /\ replies' = Append(replies, Reply(request.body.replyToken, "results",
                                                commandResults,
                                                updatedTasks(store, userId, ok), <<>>))
       ELSE /\ replies' = Append(replies, Reply(request.body.replyToken, "notUnderstood",
                                                <<>>, <<>>, text))
            /\ UNCHANGED <<ops, faults>>
    /\ pc' = "done"
    /\ response' = 200
    /\ UNCHANGED <<store, store0, userId, text, lines, i, tasks, commandResults, taskLines,
                   aiCalls, request, pageVars>>

----------------------------------------------------------------------------
(* Dashboard (src/app/page.tsx) *)

chatVars == <<userId, text, lines, i, tasks, commandResults, taskLines, aiCalls, replies,
              request, response>>

\* the droppable ids that statusMap knows, and the status it gives
statusMapKeys ==
    {"done_zone", "kanryo", "progress_zone", "dev_zone", "kaihatsuchu", "trash_zone",
     "sakujozumi", "pending_zone", "horyu", "watch_zone", "seikan"}

statusMap(overId) ==
    CASE overId \in {"done_zone", "kanryo"} -> "kanryo"
      [] overId = "progress_zone" -> "shinkochu"
      [] overId \in {"dev_zone", "kaihatsuchu"} -> "kaihatsuchu"
      [] overId \in {"trash_zone", "sakujozumi"} -> "sakujozumi"
      [] overId \in {"pending_zone", "horyu"} -> "horyu"
      [] overId \in {"watch_zone", "seikan"} -> "seikan"

\* ['S', 'A', 'B', 'C', 'DEV', 'IDEA']
priorityColumns == {"S", "A", "B", "C", "DEV", "IDEA"}

\* the drop target of a drag: nothing, a zone or column, or a task
NoTarget == [type |-> "none"]
Zone(z) == [type |-> "zone", id |-> z]
OverTask(id) == [type |-> "task", task |-> id]

\* tasks.findIndex(t => t.id === id), 0 for -1
findIndex(ts, id) ==
    IF \E k \in 1..Len(ts) : ts[k].id = id
    THEN CHOOSE k \in 1..Len(ts) : ts[k].id = id /\ \A j \in 1..(k - 1) : ts[j].id # id
    ELSE 0

\* an empty slot of an array
Hole == [id |-> 0, user_id |-> "none", title |-> <<>>, category |-> "none",
         priority |-> "none", status |-> "none", created_at |-> 0]

\* list[idx] = x
setAt(list, idx, x) ==
    [k \in 1..(IF idx > Len(list) THEN idx ELSE Len(list)) |->
        IF k = idx THEN x ELSE IF k <= Len(list) THEN list[k] ELSE Hole]

\* arrayMove of @dnd-kit/sortable
arrayMove(list, from, to) ==
    LET without == SubSeq(list, 1, from - 1) \o SubSeq(list, from + 1, Len(list))
        at == IF to - 1 > Len(without) THEN Len(without) ELSE to - 1
    IN  SubSeq(without, 1, at) \o <<list[from]>> \o SubSeq(without, at + 1, Len(without))

\* prev.map(t => t.id === id ? { ...t, ...set } : t)
mapSet(prev, id, set) == [k \in 1..Len(prev) |-> IF prev[k].id = id THEN Merge(prev[k], set) ELSE prev[k]]

\* supabase.from('tasks').delete().eq('id', id)
Delete(st, id) == SelectSeq(st, LAMBDA r : r.id # id)

\* .eq('user_id', userIdFromUrl).order('created_at', { ascending: false })
RECURSIVE newestFirst(_)
newestFirst(rows) ==
    IF rows = <<>> THEN <<>>
    ELSE LET k == CHOOSE k \in 1..Len(rows) :
                    /\ \A j \in 1..Len(rows) : rows[j].created_at <= rows[k].created_at
                    /\ \A j \in 1..(k - 1) : rows[j].created_at < rows[k].created_at
         IN  <<rows[k]>> \o newestFirst(SubSeq(rows, 1, k - 1) \o SubSeq(rows, k + 1, Len(rows)))

selectTasks(st, u) == newestFirst(SelectSeq(st, LAMBDA r : r.user_id = u))

\* the rows the insert returns
Inserted(st, payload) == SubSeq(Insert(st, payload), Len(st) + 1, Len(st) + Len(payload))

\* analyzed.map((t: any) => ({ ...t, user_id: userIdFromUrl, status: '未処理' }))
toInsert(analyzed, u) ==
    [k \in 1..Len(analyzed) |->
        [title |-> analyzed[k].title, category |-> analyzed[k].category,
         priority |-> analyzed[k].priority, user_id |-> u, status |-> "mishori"]]

\* mutant: the fallback row with priority C
fallbackRowC(value, u) ==
    <<[title |-> trim(value), user_id |-> u, priority |-> "C", status |-> "mishori",
       category |-> "shudo_nyuryoku"]>>

\* Fallback: add as IDEA if analysis fails ("shudo_nyuryoku" 手動入力)
fallbackRow(value, u) ==
    <<[title |-> trim(value), user_id |-> u, priority |-> "IDEA", status |-> "mishori",
       category |-> "shudo_nyuryoku"]>>

\* what the fetch of /api/tasks/analyze and response.json() give: the call throws, the
\* route answers { error } with status 500, or it answers an array
AnalyzeOutcomes ==
    {[kind |-> "throws"], [kind |-> "errorObject"]}
    \cup {[kind |-> "array", analyzed |-> a] : a \in AIAnswers}

\* the values of the input box and of the title editor
InputValues == { <<"y">>, <<" ", "y", " ">>, <<" ">>, <<>> }

\* where a task may be dropped
DropZones == {"trash_zone", "progress_zone", "dev_zone", "S", "IDEA", "elsewhere"}

\* the statuses the buttons of a task give
ButtonStatuses == {"kanryo", "sakujozumi"}

MayStart == pc = "page"

\* a call that was sent and that the store has not served yet
Pending(call) == call @@ [served |-> FALSE, ok |-> FALSE, data |-> <<>>]
Await(call) == Append(inflight, Pending(call))
Event(g) == gesture' = g /\ gestures' = gestures + 1

\* useEffect: fetchTasks() when the page opens with ?u=
OpenPage(u) ==
    /\ pc = "idle"
    /\ pc' = "page"
    /\ userIdFromUrl' = u
    /\ error' = "none"
    /\ inflight' = Await([kind |-> "fetchTasks"])
    /\ Event([kind |-> "open"])
    /\ UNCHANGED <<analyses, store, store0, ops, faults, chatVars, pageTasks, newTaskValue, isAdding>>

\* onFocus: fetchTasks()
Focus ==
    /\ MayStart
    /\ error' = "none"
    /\ inflight' = Await([kind |-> "fetchTasks"])
    /\ Event([kind |-> "focus"])
    /\ UNCHANGED <<analyses, store, store0, pc, ops, faults, chatVars, userIdFromUrl, pageTasks,
                   newTaskValue, isAdding>>

\* onDone, onDelete, onUpdateStatus: updateStatus(id, status)
ClickStatus(id, status) ==
    /\ MayStart
    /\ inflight' = Await([kind |-> "updateStatus", id |-> id, status |-> status])
    /\ Event([kind |-> "click", id |-> id, status |-> status])
    /\ UNCHANGED <<analyses, store, store0, pc, ops, faults, chatVars, userIdFromUrl, pageTasks,
                   newTaskValue, isAdding, error>>

\* onSaveEdit: updateTitle(id, editValue)
SaveEdit(id, title) ==
    /\ MayStart
    /\ inflight' = IF trim(title) = <<>> THEN inflight
                   ELSE Await([kind |-> "updateTitle", id |-> id, title |-> trim(title)])
    /\ Event([kind |-> "saveEdit", id |-> id, title |-> title])
    /\ UNCHANGED <<analyses, store, store0, pc, ops, faults, chatVars, userIdFromUrl, pageTasks,
                   newTaskValue, isAdding, error>>

\* mutant: the row is deleted without the answer of the dialog
shouldDeleteAlways(confirmed) == TRUE

\* if (confirm('完全に削除しますか？'))
shouldDelete(confirmed) == confirmed

\* onDelete of a drawer: deleteTaskPermanently(id)
deleteTaskPermanently(id, confirmed) ==
    /\ MayStart
    /\ inflight' = IF shouldDelete(confirmed) THEN Await([kind |-> "delete", id |-> id])
                   ELSE inflight
    /\ Event([kind |-> "deleteTaskPermanently", id |-> id, confirmed |-> confirmed])
    /\ UNCHANGED <<analyses, store, store0, pc, ops, faults, chatVars, userIdFromUrl, pageTasks,
                   newTaskValue, isAdding, error>>

\* mutant: a drag that ends over nothing is taken as a drop on the trash
dropCallCancelIsTrash(ts, activeId, over) ==
    IF over.type = "task" /\ over.task = activeId THEN <<>>
    ELSE IF over.type = "none" \/ (over.type = "zone" /\ over.id \in statusMapKeys)
    THEN <<[kind |-> "updateStatus", id |-> activeId,
            status |-> IF over.type = "none" THEN "sakujozumi" ELSE statusMap(over.id)]>>
    ELSE IF over.type = "zone" /\ over.id \in priorityColumns
    THEN <<[kind |-> "updatePriority", id |-> activeId, priority |-> over.id]>>
    ELSE IF over.type = "zone" THEN <<>>
    ELSE LET activeIndex == findIndex(ts, activeId)
             overIndex == findIndex(ts, over.task)
         IN  IF activeIndex = 0 \/ overIndex = 0 THEN <<>>
             ELSE IF ts[activeIndex].priority # ts[overIndex].priority
                     \/ ts[activeIndex].status # ts[overIndex].status
             THEN <<[kind |-> "dropOnTask", id |-> activeId,
                     activeIndex |-> activeIndex, overIndex |-> overIndex,
                     activeTask |-> ts[activeIndex],
                     newPriority |-> ts[overIndex].priority,
                     newStatus |-> ts[overIndex].status]>>
             ELSE <<>>

\* the call a drop starts, or none, and the list after a drop that starts none
dropCall(ts, activeId, over) ==
    IF over.type = "none" \/ (over.type = "task" /\ over.task = activeId) THEN <<>>
    ELSE IF over.type = "zone" /\ over.id \in statusMapKeys
    THEN <<[kind |-> "updateStatus", id |-> activeId, status |-> statusMap(over.id)]>>
    ELSE IF over.type = "zone" /\ over.id \in priorityColumns
    THEN <<[kind |-> "updatePriority", id |-> activeId, priority |-> over.id]>>
    ELSE IF over.type = "zone" THEN <<>>
    ELSE LET activeIndex == findIndex(ts, activeId)
             overIndex == findIndex(ts, over.task)
         IN  IF activeIndex = 0 \/ overIndex = 0 THEN <<>>
             ELSE IF ts[activeIndex].priority # ts[overIndex].priority
                     \/ ts[activeIndex].status # ts[overIndex].status
             THEN <<[kind |-> "dropOnTask", id |-> activeId,
                     activeIndex |-> activeIndex, overIndex |-> overIndex,
                     activeTask |-> ts[activeIndex],
                     newPriority |-> ts[overIndex].priority,
                     newStatus |-> ts[overIndex].status]>>
             ELSE <<>>

\* mutant: a drop between two tasks of one column does not move the task
dropReorderStays(ts, activeId, over) == ts

dropReorder(ts, activeId, over) ==
    IF over.type = "task" /\ over.task # activeId
       /\ findIndex(ts, activeId) # 0 /\ findIndex(ts, over.task) # 0
       /\ dropCall(ts, activeId, over) = <<>>
    THEN arrayMove(ts, findIndex(ts, activeId), findIndex(ts, over.task))
    ELSE ts

onDragEnd(activeId, over) ==
    /\ MayStart
    /\ inflight' = IF dropCall(pageTasks, activeId, over) = <<>> THEN inflight
                   ELSE Await(dropCall(pageTasks, activeId, over)[1])
    /\ pageTasks' = dropReorder(pageTasks, activeId, over)
    /\ Event([kind |-> "drop", id |-> activeId, over |-> over])
    /\ UNCHANGED <<analyses, store, store0, pc, ops, faults, chatVars, userIdFromUrl, newTaskValue,
                   isAdding, error>>

\* handleAddTask with value typed in the input box, up to the fetch of /api/tasks/analyze
handleAddTask(value) ==
    /\ MayStart
    /\ newTaskValue' = value
    /\ IF trim(value) = <<>> \/ isAdding
       THEN UNCHANGED <<isAdding, inflight>>
       ELSE /\ isAdding' = TRUE
            /\ inflight' = Await([kind |-> "analyze", value |-> value])
    /\ Event([kind |-> "handleAddTask", value |-> value])
    /\ UNCHANGED <<analyses, store, store0, pc, ops, faults, chatVars, userIdFromUrl, pageTasks, error>>

UpdateOp(id, set, ok) == [op |-> "update", id |-> id, set |-> set, ok |-> ok]
InsertOp(rows, ok) == [op |-> "insert", rows |-> rows, ok |-> ok]

\* the calls that go to the store
storeCalls ==
    {"fetchTasks", "updateStatus", "updatePriority", "updateTitle", "delete", "dropOnTask",
     "insert", "fallback"}

updateCalls == {"updateStatus", "updatePriority", "updateTitle", "dropOnTask"}

\* mutant: updatePriority writes the priority and keeps the status
callSetPriorityOnly(call) ==
    CASE call.kind = "updateStatus" -> [status |-> call.status]
      [] call.kind = "updatePriority" -> [priority |-> call.priority]
      [] call.kind = "updateTitle" -> [title |-> call.title]
      [] call.kind = "dropOnTask" -> [priority |-> call.newPriority, status |-> call.newStatus]

\* the object given to update(), which is also spread over the task in setTasks
callSet(call) ==
    CASE call.kind = "updateStatus" -> [status |-> call.status]
      [] call.kind = "updatePriority" -> [priority |-> call.priority, status |-> "mishori"]
      [] call.kind = "updateTitle" -> [title |-> call.title]
      [] call.kind = "dropOnTask" -> [priority |-> call.newPriority, status |-> call.newStatus]

\* the rows given to insert()
callRows(call, u) == IF call.kind = "insert" THEN call.rows ELSE fallbackRow(call.value, u)

\* the request the store receives
callOp(call, u, ok) ==
    CASE call.kind = "fetchTasks" -> SelectOp(u, ok)
      [] call.kind \in updateCalls -> UpdateOp(call.id, callSet(call), ok)
      [] call.kind = "delete" -> [op |-> "delete", id |-> call.id, ok |-> ok]
      [] call.kind \in {"insert", "fallback"} -> InsertOp(callRows(call, u), ok)

\* the table after the request
callEffect(call, u, st) ==
    CASE call.kind = "fetchTasks" -> st
      [] call.kind \in updateCalls -> Update(st, call.id, callSet(call))
      [] call.kind = "delete" -> Delete(st, call.id)
      [] call.kind \in {"insert", "fallback"} -> Insert(st, callRows(call, u))

\* the data of the answer
callData(call, u, st) ==
    CASE call.kind = "fetchTasks" -> selectTasks(st, u)
      [] call.kind \in {"insert", "fallback"} -> Inserted(st, callRows(call, u))
      [] OTHER -> <<>>

\* the store serves the request of call k, acknowledged or failed; the answer is on its way
Serve(k) ==
    /\ k \in 1..Len(inflight)
    /\ inflight[k].kind \in storeCalls
    /\ ~inflight[k].served
    /\ \E ok \in BOOLEAN :
        /\ MayBe(ok)
        /\ ops' = Append(ops, callOp(inflight[k], userIdFromUrl, ok))
        /\ faults' = faults + Fault(ok)
        /\ store' = IF ok THEN callEffect(inflight[k], userIdFromUrl, store) ELSE store
        /\ inflight' = [inflight EXCEPT ![k] =
                [inflight[k] EXCEPT !.served = TRUE, !.ok = ok,
                    !.data = IF ok THEN callData(inflight[k], userIdFromUrl, store) ELSE <<>>]]
    /\ UNCHANGED <<store0, pc, chatVars, userIdFromUrl, pageTasks, newTaskValue, isAdding, error,
                   gesture, gestures, analyses>>

\* the answer of call k arrives and the code after the await runs
Returns(k, kind) == k \in 1..Len(inflight) /\ inflight[k].kind = kind /\ inflight[k].served
Rest(k) == SubSeq(inflight, 1, k - 1) \o SubSeq(inflight, k + 1, Len(inflight))

\* the handler goes on to its next awaited call
Then(k, call) == [inflight EXCEPT ![k] = Pending(call)]

\* fetchTasks after the select
fetchTasksReturns(k) ==
    /\ Returns(k, "fetchTasks")
    /\ pageTasks' = IF inflight[k].ok THEN inflight[k].data ELSE pageTasks
    /\ error' = IF inflight[k].ok THEN error ELSE "load"
    /\ inflight' = Rest(k)
    /\ UNCHANGED <<store, store0, pc, ops, faults, chatVars, userIdFromUrl, newTaskValue,
                   isAdding, gesture, gestures, analyses>>

\* updateStatus, updatePriority and updateTitle after the update
updateReturns(k) ==
    /\ k \in 1..Len(inflight)
    /\ inflight[k].kind \in {"updateStatus", "updatePriority", "updateTitle"}
    /\ inflight[k].served
    /\ pageTasks' = mapSet(pageTasks, inflight[k].id, callSet(inflight[k]))
    /\ inflight' = Rest(k)
    /\ UNCHANGED <<store, store0, pc, ops, faults, chatVars, userIdFromUrl, newTaskValue,
                   isAdding, error, gesture, gestures, analyses>>

\* deleteTaskPermanently after the delete
deleteReturns(k) ==
    /\ Returns(k, "delete")
    /\ pageTasks' = SelectSeq(pageTasks, LAMBDA t : t.id # inflight[k].id)
    /\ inflight' = Rest(k)
    /\ UNCHANGED <<store, store0, pc, ops, faults, chatVars, userIdFromUrl, newTaskValue,
                   isAdding, error, gesture, gestures, analyses>>

\* onDragEnd on a task: the then() of the update
dropOnTaskReturns(k) ==
    /\ Returns(k, "dropOnTask")
    /\ pageTasks' = arrayMove(setAt(pageTasks, inflight[k].activeIndex,
                                    Merge(inflight[k].activeTask, callSet(inflight[k]))),
                              inflight[k].activeIndex, inflight[k].overIndex)
    /\ inflight' = Rest(k)
    /\ UNCHANGED <<store, store0, pc, ops, faults, chatVars, userIdFromUrl, newTaskValue,
                   isAdding, error, gesture, gestures, analyses>>

\* handleAddTask after the fetch of /api/tasks/analyze and response.json()
analyzeReturns(k) ==
    /\ k \in 1..Len(inflight)
    /\ inflight[k].kind = "analyze"
    /\ \E outcome \in AnalyzeOutcomes :
        /\ analyses' = Append(analyses, [value |-> inflight[k].value, outcome |-> outcome])
        /\ IF outcome.kind = "array"
           THEN /\ inflight' = Then(k, [kind |-> "insert", value |-> inflight[k].value,
                                         rows |-> toInsert(outcome.analyzed, userIdFromUrl)])
                /\ error' = error
           ELSE /\ inflight' = Then(k, [kind |-> "fallback", value |-> inflight[k].value])
                /\ error' = "add"
    /\ UNCHANGED <<store, store0, pc, ops, faults, chatVars, userIdFromUrl, pageTasks,
                   newTaskValue, isAdding, gesture, gestures>>

\* handleAddTask after the insert of the analyzed tasks
insertReturns(k) ==
    /\ Returns(k, "insert")
    /\ IF inflight[k].ok
       THEN /\ pageTasks' = inflight[k].data \o pageTasks
            /\ newTaskValue' = <<>>
            /\ isAdding' = FALSE
            /\ inflight' = Rest(k)
            /\ error' = error
       ELSE /\ inflight' = Then(k, [kind |-> "fallback", value |-> inflight[k].value])
            /\ error' = "add"
            /\ UNCHANGED <<pageTasks, newTaskValue, isAdding>>
    /\ UNCHANGED <<store, store0, pc, ops, faults, chatVars, userIdFromUrl, gesture, gestures,
                   analyses>>

\* handleAddTask after the insert of the fallback task
fallbackReturns(k) ==
    /\ Returns(k, "fallback")
    /\ pageTasks' = IF inflight[k].ok THEN inflight[k].data \o pageTasks ELSE pageTasks
    /\ newTaskValue' = IF inflight[k].ok THEN <<>> ELSE newTaskValue
    /\ isAdding' = FALSE
    /\ inflight' = Rest(k)
    /\ UNCHANGED <<store, store0, pc, ops, faults, chatVars, userIdFromUrl, error, gesture,
                   gestures, analyses>>

\* a visit of the dashboard with at most `events` events and `pending` awaited calls
MayAwait(events, pending) == gestures < events /\ Len(inflight) < pending

Visit(events, pending) ==
    \/ MayAwait(events, pending) /\ Focus
    \/ /\ MayAwait(events, pending)
       /\ \E k \in 1..Len(pageTasks), status \in ButtonStatuses :
            ClickStatus(pageTasks[k].id, status)
    \/ /\ MayAwait(events, pending)
       /\ \E k \in 1..Len(pageTasks), title \in InputValues : SaveEdit(pageTasks[k].id, title)
    \/ /\ MayAwait(events, pending)
       /\ \E k \in 1..Len(pageTasks), confirmed \in BOOLEAN :
            deleteTaskPermanently(pageTasks[k].id, confirmed)
    \/ /\ gestures < events
       /\ \E k \in 1..Len(pageTasks) :
            \E over \in {NoTarget} \cup {Zone(z) : z \in DropZones}
                        \cup {OverTask(pageTasks[j].id) : j \in 1..Len(pageTasks)} :
                /\ dropCall(pageTasks, pageTasks[k].id, over) # <<>> => Len(inflight) < pending
                /\ onDragEnd(pageTasks[k].id, over)
    \/ MayAwait(events, pending) /\ \E value \in InputValues : handleAddTask(value)
    \/ \E k \in 1..Len(inflight) : Serve(k)
    \/ \E k \in 1..Len(inflight) : fetchTasksReturns(k)
    \/ \E k \in 1..Len(inflight) : updateReturns(k)
    \/ \E k \in 1..Len(inflight) : deleteReturns(k)
    \/ \E k \in 1..Len(inflight) : dropOnTaskReturns(k)
    \/ \E k \in 1..Len(inflight) : analyzeReturns(k)
    \/ \E k \in 1..Len(inflight) : insertReturns(k)
    \/ \E k \in 1..Len(inflight) : fallbackReturns(k)

Next ==
    \/ \E u \in Users, t \in Messages, key \in SenderKeys : PostNoSecret(u, t, key)
    \/ \E u \in Users, t \in Messages, key \in SenderKeys, secret \in ChannelSecrets :
            PostInvalidSignature(u, t, key, secret)
    \/ \E u \in Users, t \in Messages : ReceiveList(u, t)
    \/ \E u \in Users, t \in Messages : ReceiveHelp(u, t)
    \/ \E u \in Users, t \in Messages : ReceiveCommands(u, t)
    \/ HandleLine
    \/ Analyze
    \/ SendReply
    \/ \E u \in Users : OpenPage(u)
    \/ Visit(MaxGestures, MaxInflight)

Spec == Init /\ [][Next]_vars

\* The dashboard alone, with more events and with calls that overlap, over the tables in
\* which every task is a task of U1
VisitStores ==
    {InitStoreOf(f) : f \in [1..MaxTasks -> {r \in InitRowKinds : r.user_id = "U1"}]}

DashboardInit == Init /\ store \in VisitStores

DashboardNext ==
    \/ \E u \in Users : OpenPage(u)
    \/ Visit(MaxVisitGestures, MaxVisitInflight)

DashboardSpec == DashboardInit /\ [][DashboardNext]_vars

----------------------------------------------------------------------------
(* Claims *)

\* the lists that fetchActiveTasks returned for this message
FetchedLists ==
    (IF pc \in {"loop", "reply"} \/ (pc = "done" /\ lines # <<>>) THEN {tasks} ELSE {})
    \cup {replies[k].list : k \in 1..Len(replies)}

C1Rank(p) == CASE p = "S" -> 0 [] p = "A" -> 1 [] p = "B" -> 2 [] OTHER -> 3

\* C1: every list fetchActiveTasks returns is in ascending order of priority rank
\* (S=0, A=1, B=2, C=3, any other 3) and, within one rank, of created_at.
C1_SortedByRankThenCreated ==
    \A l \in FetchedLists : \A a, b \in 1..Len(l) :
        a < b =>
            /\ C1Rank(l[a].priority) <= C1Rank(l[b].priority)
            /\ C1Rank(l[a].priority) = C1Rank(l[b].priority) => l[a].created_at <= l[b].created_at

\* a list where a more urgent task created later stands before a less urgent one created
\* earlier, and two tasks of one priority stand in the order of their creation
C1_Witness ==
    \E l \in FetchedLists : \E a, b, c \in 1..Len(l) :
        /\ a < b /\ b < c
        /\ l[a].priority = "S" /\ l[b].priority = "B" /\ l[a].created_at > l[b].created_at
        /\ l[c].priority = "B" /\ l[b].created_at < l[c].created_at

\* the step of the for loop that handles lines[i]
LineStep == pc = "loop" /\ i <= Len(lines) /\ i' = i + 1

\* the store calls issued by the step
NewOps == SubSeq(ops', Len(ops) + 1, Len(ops'))

\* C2: a reprioritize line with a valid index, once the store has acknowledged the update,
\* leaves the task at that position of the list with the new priority and status 未処理,
\* whatever its status was, and every other row as it was.
C2_ReprioritizeResetsStatus ==
    [][ (/\ LineStep
         /\ priorityRegex(lines[i]).ok
         /\ hasTask(tasks, priorityRegex(lines[i]).idx)
         /\ \A k \in 1..Len(NewOps) : NewOps[k].ok)
        => LET m == priorityRegex(lines[i])
               id == tasks[m.idx].id
           IN  /\ Len(store') = Len(store)
               /\ \A k \in 1..Len(store) :
                    store'[k] = IF store[k].id = id
                                THEN [store[k] EXCEPT !.priority = toUpperCase(m.letter),
                                                      !.status = "mishori"]
                                ELSE store[k] ]_vars

\* the scenario: a task in progress with priority B was reprioritized to S
C2_Witness ==
    /\ pc = "loop" /\ i = 2
    /\ priorityRegex(lines[1]).ok
    /\ hasTask(tasks, priorityRegex(lines[1]).idx)
    /\ LET t == tasks[priorityRegex(lines[1]).idx]
       IN  /\ t.status = "shinkochu" /\ t.priority = "B"
           /\ Row(store, t.id).priority = "S" /\ Row(store, t.id).status = "mishori"

\* the line has the shape of one of the four commands
MatchesCommand(l) ==
    editRegex(l).ok \/ priorityRegex(l).ok \/ statusEndRegex(l).ok \/ commandStartRegex(l).ok

\* the indices the line names
LineIndices(l) ==
    IF editRegex(l).ok THEN <<editRegex(l).idx>>
    ELSE IF priorityRegex(l).ok THEN <<priorityRegex(l).idx>>
    ELSE IF statusEndRegex(l).ok THEN targetIndices(statusEndRegex(l).group)
    ELSE IF commandStartRegex(l).ok THEN targetIndices(commandStartRegex(l).group)
    ELSE <<>>

IsStatusLine(l) == statusEndRegex(l).ok \/ commandStartRegex(l).ok
StatusLineWord(l) ==
    IF statusEndRegex(l).ok THEN statusEndRegex(l).statusStr ELSE commandStartRegex(l).statusStr
StatusLineIndices(l) ==
    {LineIndices(l)[k] : k \in 1..Len(LineIndices(l))}

\* the status a status word stands for
C3Status(w) == IF w = "sakujo" THEN "sakujozumi" ELSE IF w = "modosu" THEN "mishori" ELSE w

\* C3: a status line (suffix or prefix form, any number of indices) issues updates for
\* exactly the tasks at those positions of the list fetched before the command; every row
\* whose update the store acknowledges gets the status, every other row stays as it was;
\* and the list in the reply holds no soft-deleted task.
C3_StatusAppliesToNamedPositions ==
    /\ [][ (LineStep /\ IsStatusLine(lines[i]))
           => LET targets == {tasks[n].id : n \in StatusLineIndices(lines[i]) \cap 1..Len(tasks)}
                  acked == {NewOps[k].id : k \in {j \in 1..Len(NewOps) : NewOps[j].ok}}
              IN  /\ {NewOps[k].id : k \in 1..Len(NewOps)} = targets
                  /\ \A k \in 1..Len(NewOps) : NewOps[k].op = "update"
                  /\ Len(store') = Len(store)
                  /\ \A k \in 1..Len(store) :
                        store'[k] = IF store[k].id \in acked
                                    THEN [store[k] EXCEPT
                                            !.status = C3Status(StatusLineWord(lines[i]))]
                                    ELSE store[k] ]_vars
    /\ [](pc = "done" =>
            \A r \in 1..Len(replies) : \A k \in 1..Len(replies[r].list) :
                Row(store, replies[r].list[k].id).status # "sakujozumi")

\* the scenario: three active tasks, "削除 1 3", and the reply lists the second one alone
C3_Witness ==
    /\ pc = "done"
    /\ lines = << <<"sakujo", " ", "1", " ", "3">> >>
    /\ Len(tasks) = 3
    /\ Row(store, tasks[1].id).status = "sakujozumi"
    /\ Row(store, tasks[3].id).status = "sakujozumi"
    /\ Row(store, tasks[2].id) = tasks[2]
    /\ Len(replies) = 1 /\ Len(replies[1].list) = 1 /\ replies[1].list[1].id = tasks[2].id

\* every line names an index, and each index is 0 or one past the end of the list
OnlyBoundaryIndices ==
    /\ lines # <<>>
    /\ \A k \in 1..Len(lines) :
        /\ MatchesCommand(lines[k])
        /\ LineIndices(lines[k]) # <<>>
        /\ \A n \in 1..Len(LineIndices(lines[k])) :
              LineIndices(lines[k])[n] \in {0, Len(tasks) + 1}

\* C4: a message whose lines are commands with index 0 or activeTaskCount+1 changes no
\* row and inserts none.
C4_BoundaryIndexMutatesNothing ==
    (pc = "done" /\ OnlyBoundaryIndices /\ ops[1].ok) => store = store0

\* C5: for every index a command line names outside [1, activeTaskCount], the reply
\* holds a "task not found" entry for that index.
C5_OutOfRangeIndexReportedNotFound ==
    (pc = "done" /\ lines # <<>>) =>
        \A k \in 1..Len(lines) : \A n \in 1..Len(LineIndices(lines[k])) :
            ~hasTask(tasks, LineIndices(lines[k])[n]) =>
                \E r \in 1..Len(replies) : \E j \in 1..Len(replies[r].results) :
                    /\ replies[r].results[j].kind = "taskNotFound"
                    /\ replies[r].results[j].n = LineIndices(lines[k])[n]

\* the rows the table holds beyond those it held when the message arrived
NewRows == SubSeq(store, Len(store0) + 1, Len(store))

InsertAcknowledged == \E k \in 1..Len(ops) : ops[k].op = "insert" /\ ops[k].ok

\* the position p of the list is where the priority of its task puts it
SortedPosition(l, p) ==
    /\ \A q \in 1..(p - 1) : C1Rank(l[q].priority) <= C1Rank(l[p].priority)
    /\ \A q \in (p + 1)..Len(l) : C1Rank(l[p].priority) <= C1Rank(l[q].priority)

C7_CommandLineNeverForwarded ==
    \A k \in 1..Len(taskLines) : ~MatchesCommand(taskLines[k])

\* the reply reports the line as a command that was not recognised
ReportedNotRecognized(l) ==
    \E r \in 1..Len(replies) : \E j \in 1..Len(replies[r].results) :
        replies[r].results[j].kind = "notRecognized" /\ replies[r].results[j].subject = l

\* the line is in no text given to the classifier
NotForwarded(l) ==
    \A c \in 1..Len(aiCalls) : \A j \in 1..Len(Split(aiCalls[c].text)) :
        Split(aiCalls[c].text)[j] # l

BeginsWithDigit(l) == l # <<>> /\ l[1] \in DigitChars

\* digits, then a blank, は, を or the end of the line
DigitsThenSeparator(l) ==
    /\ BeginsWithDigit(l)
    /\ \E d \in 1..Len(l) :
        /\ \A k \in 1..d : l[k] \in DigitChars
        /\ d = Len(l) \/ l[d + 1] \in {" ", "wa", "wo"}

C9_ClassifierGetsFreeLines ==
    (pc \in {"reply", "done"}) =>
        LET free == SelectSeq(lines, LAMBDA l : ~MatchesCommand(l) /\ ~DigitsThenSeparator(l))
        IN  /\ Len(aiCalls) = (IF free = <<>> THEN 0 ELSE 1)
            /\ free # <<>> => aiCalls[1].text = Join(free)

\* C10: the list the indices are resolved against holds exactly the sender's tasks whose
\* status is none of 完了, 削除済み, 保留, 静観.
C10_ActiveListExcludesFourStatuses ==
    (pc = "loop" /\ ops[1].ok) =>
        {tasks[k].id : k \in 1..Len(tasks)} =
            {store0[k].id : k \in {j \in 1..Len(store0) :
                /\ store0[j].user_id = userId
                /\ store0[j].status \notin {"kanryo", "sakujozumi", "horyu", "seikan"}}}

\* C11: every row of the table has one of the six priorities.
C11_PriorityAlwaysEnumerated ==
    \A k \in 1..Len(store) : store[k].priority \in {"S", "A", "B", "C", "DEV", "IDEA"}

\* the text has a character that is not white space
NotBlank(t) == \E k \in 1..Len(t) : t[k] \notin {" ", "LF"}

\* C12: every title a store update writes, from the chat or from the dashboard, has a
\* character that is not white space.
C12_TitleEditNeverBlank ==
    [][ \A k \in 1..Len(NewOps) :
            (NewOps[k].op = "update" /\ "title" \in DOMAIN NewOps[k].set)
                => NotBlank(NewOps[k].set.title) ]_vars

C13Numeral(k) == CASE k = 1 -> <<"1">> [] k = 2 -> <<"2">> [] k = 3 -> <<"3">> [] OTHER -> <<"0">>
C13Blank == {<<>>, <<" ">>}

\* C13: after a message '<index> <connector> <title> に修正' whose title is the title of the
\* task at that index, the reply reports the rename and the stored title is that title.
C13_RenameToSameTitleKeepsTitle ==
    (pc = "done" /\ lines # <<>>) =>
        \A k \in 1..Len(tasks) : \A c \in {"wa", "wo"} : \A a, b, d \in C13Blank :
            text = C13Numeral(k) \o a \o <<c>> \o b \o tasks[k].title \o d \o <<"ni_shusei">>
            => /\ Row(store, tasks[k].id).title = tasks[k].title
               /\ \E j \in 1..Len(replies[1].results) : replies[1].results[j].kind = "edit"

\* the store calls that change the table
IsMutation(o) == o.op \in {"update", "insert", "delete"}

\* C14: when the reply of a chat message carries results, the list in it was fetched by
\* the last store call of the message, the only select after the one before the loop,
\* and when that select succeeds the list holds exactly the sender's rows of the final
\* table that are neither done nor deleted, with their final fields.
C14_ReplyListFetchedOnceAtEnd ==
    (pc = "done" /\ replies # <<>> /\ replies[1].kind = "results") =>
        /\ Len(replies) = 1
        /\ {k \in 1..Len(ops) : ops[k].op = "select"} = {1, Len(ops)}
        /\ Len(ops) >= 2
        /\ \A k \in 2..(Len(ops) - 1) : IsMutation(ops[k])
        /\ ops[Len(ops)].ok =>
            LET list == replies[1].list
            IN  /\ \A k \in 1..Len(list) : list[k] = Row(store, list[k].id)
                /\ \A a, b \in 1..Len(list) : a # b => list[a].id # list[b].id
                /\ {list[k].id : k \in 1..Len(list)} =
                        {store[k].id : k \in {j \in 1..Len(store) :
                            /\ store[j].user_id = userId
                            /\ store[j].status \notin {"kanryo", "sakujozumi"}}}

\* two lines changed the same task and a third row was inserted: the list shows the result
C14_Witness ==
    /\ pc = "done" /\ Len(lines) = 2
    /\ Len(ops) = 4 /\ \A k \in 1..4 : ops[k].ok
    /\ ops[2].op = "update" /\ ops[3].op = "insert"
    /\ \E k \in 1..Len(replies[1].list) :
        /\ replies[1].list[k].id = ops[2].id
        /\ replies[1].list[k] # Row(store0, ops[2].id)
    /\ \E k \in 1..Len(replies[1].list) : replies[1].list[k].id \notin Ids(store0)

\* C15: when an update or insert of a chat message fails, the reply has a failure entry.
C15_StoreFailureReported ==
    (pc = "done" /\ replies # <<>>
       /\ \E k \in 1..Len(ops) : IsMutation(ops[k]) /\ ~ops[k].ok) =>
        \E j \in 1..Len(replies[1].results) :
            replies[1].results[j].kind \in {"insertFailed", "updateFailed"}

\* C16: a request whose signature is not the one of its body under the configured channel
\* secret is answered 401, and nothing is handled: no store call, no classifier call, no
\* reply, no change of the table.
C16_InvalidSignatureRejected ==
    (request # NoRequest /\ request.channelSecret # ""
       /\ request.signature.key # request.channelSecret) =>
        /\ response = 401
        /\ pc = "done"
        /\ ops = <<>> /\ aiCalls = <<>> /\ replies = <<>>
        /\ store = store0
        /\ lines = <<>> /\ tasks = <<>>

C16_Witness ==
    /\ response = 401
    /\ request.signature = [key |-> "forged", body |-> request.body]
    /\ request.body.text = <<"sakujo", " ", "1", " ", "3">>
    /\ store # <<>>

\* C17: while a chat message of user U is handled, every select asks for U's rows, every
\* update targets a row of U, every inserted row is owned by U, every list fetched holds
\* rows of U only, and the rows of the other users stay as they were.
C17_ScopedToSender ==
    userId # "none" =>
        /\ \A k \in 1..Len(ops) :
            /\ ops[k].op = "select" => ops[k].user = userId
            /\ ops[k].op = "update" => Row(store0, ops[k].id).user_id = userId
            /\ ops[k].op = "insert" =>
                    \A j \in 1..Len(ops[k].rows) : ops[k].rows[j].user_id = userId
            /\ ops[k].op \in {"select", "update", "insert"}
        /\ \A l \in FetchedLists : \A k \in 1..Len(l) : l[k].user_id = userId
        /\ \A k \in 1..Len(store0) : store0[k].user_id # userId => store[k] = store0[k]
        /\ \A k \in (Len(store0) + 1)..Len(store) : store[k].user_id = userId

\* U1 changed and added a task while the table holds a task of U2
C17_Witness ==
    /\ pc = "done" /\ userId = "U1"
    /\ \E k \in 1..Len(store0) : store0[k].user_id = "U2"
    /\ \E k \in 1..Len(ops) : ops[k].op = "update" /\ ops[k].ok
    /\ \E k \in 1..Len(ops) : ops[k].op = "insert" /\ ops[k].ok
    /\ replies[1].list # <<>>

DeleteCalls(calls) == {k \in 1..Len(calls) : calls[k].kind = "delete"}

\* C18: a row leaves the table only when the store serves a delete call; a delete call is started
\* only by deleteTaskPermanently for that row after the user confirmed; and a drop on the
\* trash zone starts an update of the status to 削除済み and nothing else.
C18_RowsRemovedOnlyByConfirmedDelete ==
    /\ [][ Ids(store) \ Ids(store') \subseteq
                {NewOps[k].id : k \in {j \in 1..Len(NewOps) : NewOps[j].op = "delete"}} ]_vars
    /\ [][ Cardinality(DeleteCalls(inflight')) > Cardinality(DeleteCalls(inflight))
            => /\ gestures' = gestures + 1
               /\ gesture'.kind = "deleteTaskPermanently"
               /\ gesture'.confirmed
               /\ inflight' = Append(inflight, Pending([kind |-> "delete", id |-> gesture'.id])) ]_vars
    /\ [][ (gestures' = gestures + 1 /\ gesture'.kind = "drop"
              /\ gesture'.over = [type |-> "zone", id |-> "trash_zone"])
            => inflight' = Append(inflight, Pending([kind |-> "updateStatus", id |-> gesture'.id,
                                                     status |-> "sakujozumi"])) ]_vars

\* a task was dropped on the trash zone and the update returned: the row is there, deleted
C18_Witness ==
    /\ pc = "page" /\ inflight = <<>>
    /\ gesture.kind = "drop" /\ gesture.over = [type |-> "zone", id |-> "trash_zone"]
    /\ ops[Len(ops)].op = "update" /\ ops[Len(ops)].ok
    /\ Ids(store) = Ids(store0)
    /\ Row(store, gesture.id).status = "sakujozumi"
    /\ Row(store0, gesture.id).status # "sakujozumi"

AnalysisFailed == analyses # <<>> /\ analyses[Len(analyses)].outcome.kind \in {"throws", "errorObject"}

\* the store serves the insert of the fallback task, call k
FallbackServed(k) ==
    /\ k \in 1..Len(inflight) /\ Len(inflight') = Len(inflight)
    /\ inflight[k].kind = "fallback" /\ ~inflight[k].served /\ inflight'[k].served

\* C19: when the classification call of a quick-add throws or answers no array, nothing
\* is inserted when it returns and the one call that follows is the insert of the fallback
\* task; when the store acknowledges that insert the table has exactly one more row:
\* priority IDEA, category 手動入力, status 未処理, the user of the page as owner and the
\* trimmed input as title; and the submission ends when that call returns.
C19_FallbackInsertsOneIdea ==
    /\ [][ (Len(analyses') > Len(analyses)
              /\ analyses'[Len(analyses')].outcome.kind \in {"throws", "errorObject"})
            => /\ store' = store /\ ops' = ops
               /\ \E k \in 1..Len(inflight) :
                    /\ inflight[k].kind = "analyze"
                    /\ inflight' = [inflight EXCEPT ![k] =
                            Pending([kind |-> "fallback", value |-> inflight[k].value])] ]_vars
    /\ [][ \A k \in 1..Len(inflight) : FallbackServed(k) =>
               /\ Len(NewOps) = 1 /\ NewOps[1].op = "insert"
               /\ NewOps[1].ok =>
                    /\ Len(store') = Len(store) + 1
                    /\ SubSeq(store', 1, Len(store)) = store
                    /\ LET row == store'[Len(store')]
                       IN  /\ row.priority = "IDEA"
                           /\ row.category = "shudo_nyuryoku"
                           /\ row.status = "mishori"
                           /\ row.user_id = userIdFromUrl
                           /\ row.title = trim(inflight[k].value)
                           /\ row.id \notin Ids(store) ]_vars
    /\ [][ (isAdding /\ ~isAdding' /\ AnalysisFailed /\ gestures' = gestures)
            => /\ store' = store
               /\ \E k \in 1..Len(inflight) :
                    inflight[k].kind = "fallback" /\ inflight[k].served ]_vars

\* the call threw, and the input " y " became one IDEA task with title "y"
C19_Witness ==
    /\ pc = "page" /\ ~isAdding
    /\ Len(analyses) = 1 /\ analyses[1].outcome.kind = "throws"
    /\ analyses[1].value = <<" ", "y", " ">>
    /\ Len(store) = Len(store0) + 1
    /\ store[Len(store)].title = <<"y">>
    /\ store[Len(store)].priority = "IDEA"
    /\ pageTasks # <<>> /\ pageTasks[1] = store[Len(store)]

\* the rows that the insert whose answer arrives in this step added
RowsOfAnswer ==
    IF \E k \in 1..Len(inflight) :
            /\ inflight[k].kind \in {"insert", "fallback"} /\ inflight[k].served
            /\ Len(inflight') = Len(inflight) - 1
    THEN LET k == CHOOSE k \in 1..Len(inflight) :
                    inflight[k].kind \in {"insert", "fallback"} /\ inflight[k].served
         IN  inflight[k].data
    ELSE <<>>

\* C20: a step of handleAddTask that empties the input box follows an insert that added
\* at least one row; and when a submission ends, its insert added a row, or an error is
\* shown and the input is still in the box.
C20_InputNeverDropped ==
    /\ [][ (gestures' = gestures /\ newTaskValue # <<>> /\ newTaskValue' = <<>>)
            => RowsOfAnswer # <<>> ]_vars
    /\ [][ (isAdding /\ ~isAdding')
            => \/ RowsOfAnswer # <<>>
               \/ (error' # "none" /\ newTaskValue' = newTaskValue /\ newTaskValue # <<>>) ]_vars

\* a drag ends in this step
Dropped == gestures' = gestures + 1 /\ gesture'.kind = "drop"

\* the store serves call k in this step, and the answer of call k arrives in this step
Served(k) ==
    /\ k \in 1..Len(inflight) /\ Len(inflight') = Len(inflight)
    /\ ~inflight[k].served /\ inflight'[k].served
Answered(k) ==
    /\ k \in 1..Len(inflight) /\ inflight[k].served
    /\ gestures' = gestures /\ ops' = ops
    /\ inflight' = SubSeq(inflight, 1, k - 1) \o SubSeq(inflight, k + 1, Len(inflight))

\* C21: a drag that ends over no drop target, or over the dragged task itself, starts no
\* call to the store and leaves the table and the list of the page as they were.
C21_DropOnNothingChangesNothing ==
    [][ (/\ Dropped
         /\ \/ gesture'.over.type = "none"
            \/ (gesture'.over.type = "task" /\ gesture'.over.task = gesture'.id))
        => /\ inflight' = inflight
           /\ ops' = ops
           /\ store' = store
           /\ pageTasks' = pageTasks ]_vars

\* a task of a list of three was dropped over nothing; nothing but the first select was
\* sent and the list is the list the select gave
C21_Witness ==
    /\ pc = "page" /\ gesture.kind = "drop" /\ gesture.over.type = "none"
    /\ inflight = <<>> /\ Len(ops) = 1 /\ ops[1].ok
    /\ Len(pageTasks) = 3 /\ store = store0
    /\ \A k \in 1..3 : pageTasks[k] = Row(store, pageTasks[k].id)

\* the rows with the task id given priority p and status 未処理
C22Expected(rows, id, p) ==
    [k \in 1..Len(rows) |->
        IF rows[k].id = id THEN [rows[k] EXCEPT !.priority = p, !.status = "mishori"]
        ELSE rows[k]]

\* C22: a drop of a task on a priority column starts one updatePriority call for that task
\* and column and changes nothing yet; when the store acknowledges the call, the row of
\* the task has the priority of the column and status 未処理 and every other row is as it
\* was; and when the acknowledged answer arrives the same holds of the list of the page.
C22_ColumnDropSetsPriorityResetsStatus ==
    /\ [][ (Dropped /\ gesture'.over.type = "zone" /\ gesture'.over.id \in priorityColumns)
            => /\ inflight' = Append(inflight,
                        Pending([kind |-> "updatePriority", id |-> gesture'.id,
                                 priority |-> gesture'.over.id]))
               /\ pageTasks' = pageTasks /\ store' = store /\ ops' = ops ]_vars
    /\ [][ \A k \in 1..Len(inflight) :
            (Served(k) /\ inflight[k].kind = "updatePriority" /\ inflight'[k].ok)
            => /\ store' = C22Expected(store, inflight[k].id, inflight[k].priority)
               /\ pageTasks' = pageTasks ]_vars
    /\ [][ \A k \in 1..Len(inflight) :
            (Answered(k) /\ inflight[k].kind = "updatePriority" /\ inflight[k].ok)
            => /\ pageTasks' = C22Expected(pageTasks, inflight[k].id, inflight[k].priority)
               /\ store' = store ]_vars

\* a task on hold with priority DEV was dropped on column S: table and list show it with
\* priority S and status 未処理, and the other tasks as they were
C22_Witness ==
    /\ pc = "page" /\ inflight = <<>>
    /\ gesture.kind = "drop" /\ gesture.over = [type |-> "zone", id |-> "S"]
    /\ Len(ops) = 2 /\ ops[2].op = "update" /\ ops[2].ok
    /\ Row(store0, gesture.id).priority = "DEV" /\ Row(store0, gesture.id).status = "horyu"
    /\ Row(store, gesture.id).priority = "S" /\ Row(store, gesture.id).status = "mishori"
    /\ Len(pageTasks) >= 2
    /\ \A k \in 1..Len(pageTasks) :
        /\ pageTasks[k] = Row(store, pageTasks[k].id)
        /\ pageTasks[k].id # gesture.id => pageTasks[k] = Row(store0, pageTasks[k].id)

\* the first position of a task in a list
C23Position(ts, id) == CHOOSE k \in 1..Len(ts) : ts[k].id = id /\ \A j \in 1..(k - 1) : ts[j].id # id

\* the drag of this step ended over another task of the list
DroppedOnTask ==
    /\ Dropped /\ gesture'.over.type = "task" /\ gesture'.over.task # gesture'.id
    /\ gesture'.id \in Ids(pageTasks) /\ gesture'.over.task \in Ids(pageTasks)

C24_DropWithinColumnOnlyReorders ==
    [][ DroppedOnTask =>
        LET X == pageTasks[C23Position(pageTasks, gesture'.id)]
            Y == pageTasks[C23Position(pageTasks, gesture'.over.task)]
        IN  (X.priority = Y.priority /\ X.status = Y.status)
            => /\ inflight' = inflight /\ ops' = ops /\ store' = store
               /\ Len(pageTasks') = Len(pageTasks)
               /\ \E p \in Permutations(1..Len(pageTasks)) :
                    \A k \in 1..Len(pageTasks) : pageTasks'[k] = pageTasks[p[k]]
               /\ pageTasks'[C23Position(pageTasks, Y.id)] = X ]_vars

\* of three tasks in one column, the oldest was dropped on the newest and now stands first
C24_Witness ==
    /\ pc = "page" /\ inflight = <<>> /\ Len(ops) = 1 /\ store = store0
    /\ gesture.kind = "drop" /\ gesture.over.type = "task"
    /\ Len(pageTasks) = 3
    /\ gesture.id = 1 /\ gesture.over.task = 3
    /\ pageTasks[1].id = 1 /\ pageTasks[2].id = 3 /\ pageTasks[3].id = 2
    /\ \A k \in 1..3 : pageTasks[k] = Row(store, pageTasks[k].id)

\* C25: a zone drop or a drop on a task changes the list of the page only when the answer
\* of an acknowledged update arrives: the drop itself leaves the list as it is, and the
\* answer of an update that failed leaves the list as it is.
C25_ListChangesOnlyAfterAcknowledgement ==
    /\ [][ (Dropped /\ inflight' # inflight) => pageTasks' = pageTasks ]_vars
    /\ [][ \A k \in 1..Len(inflight) :
            (/\ Answered(k) /\ gesture.kind = "drop"
             /\ inflight[k].kind \in {"updateStatus", "updatePriority", "dropOnTask"}
             /\ ~inflight[k].ok)
            => pageTasks' = pageTasks ]_vars

\* the ids of the tasks at the positions a line names
C26Targets(l) == {tasks[LineIndices(l)[n]].id : n \in 1..Len(LineIndices(l))}

\* C26: while the lines of a message are handled, the one select of the message is the
\* first store call, the list it gave is kept as it was fetched (its rows are the rows
\* the table had before the first line), the lines are handled one after the other in
\* their order, and a command line whose indices are all positions of that list updates
\* exactly the tasks at those positions of that list, whatever earlier lines did to them.
C26_IndicesResolveAgainstOneSnapshot ==
    /\ [](pc \in {"loop", "reply"} =>
            /\ Len(ops) >= 1 /\ ops[1].op = "select"
            /\ \A k \in 2..Len(ops) : ops[k].op # "select"
            /\ \A k \in 1..Len(tasks) : tasks[k] = Row(store0, tasks[k].id))
    /\ [][ LineStep => tasks' = tasks /\ lines' = lines ]_vars
    /\ [][ (/\ LineStep /\ MatchesCommand(lines[i]) /\ LineIndices(lines[i]) # <<>>
            /\ \A n \in 1..Len(LineIndices(lines[i])) : LineIndices(lines[i])[n] \in 1..Len(tasks))
           => /\ NewOps # <<>>
              /\ \A k \in 1..Len(NewOps) : NewOps[k].op = "update"
              /\ {NewOps[k].id : k \in 1..Len(NewOps)} = C26Targets(lines[i]) ]_vars

\* "1完了" and then "1S": both lines updated the first task of the list fetched at the
\* start, which the first line had completed
C26_Witness ==
    /\ pc = "done"
    /\ lines = << <<"1", "kanryo">>, <<"1", "S">> >>
    /\ Len(tasks) >= 2
    /\ Len(ops) = 4
    /\ ops[2].ok /\ ops[3].ok
    /\ ops[2].id = tasks[1].id /\ ops[3].id = tasks[1].id
    /\ "priority" \in DOMAIN ops[3].set
    /\ ops[1].op = "select" /\ ops[4].op = "select"

\* C27: a line never changes the status or the priority of a task that the table holds as
\* 完了 or 削除済み; the list of a message holds no such task when it is fetched, so such
\* a task was completed or deleted by an earlier line of the message.
C27_ClosedTaskNotChangedByLaterLine ==
    [][ LineStep =>
        \A k \in 1..Len(NewOps) :
            (NewOps[k].op = "update" /\ NewOps[k].ok
             /\ DOMAIN NewOps[k].set \cap {"status", "priority"} # {})
            => Row(store, NewOps[k].id).status \notin {"kanryo", "sakujozumi"} ]_vars

\* no two entries of the list have one id
C28Distinct(ts) == \A a, b \in 1..Len(ts) : a # b => ts[a].id # ts[b].id

\* a visit of drags, clicks and refreshes: no task is added, and the store acknowledged
\* every call
C28Visit == pc = "page" /\ ~isAdding /\ analyses = <<>> /\ \A k \in 1..Len(ops) : ops[k].ok

C29_ListAgreesWithStoreWhenQuiet ==
    (/\ pc = "page" /\ inflight = <<>> /\ \A k \in 1..Len(ops) : ops[k].ok
     /\ C28Distinct(pageTasks))
    => \A k \in 1..Len(pageTasks) :
            pageTasks[k].id \in Ids(store)
            => /\ pageTasks[k].priority = Row(store, pageTasks[k].id).priority
               /\ pageTasks[k].status = Row(store, pageTasks[k].id).status

\* C30: no reply is sent before the handling of a message ends, and when the handling of
\* an accepted message has ended exactly one reply was sent, with the reply token of the
\* event of that message.
C30_ExactlyOneReply ==
    /\ pc # "done" => replies = <<>>
    /\ (pc = "done" /\ response = 200)
        => /\ Len(replies) = 1
           /\ replies[1].replyToken = request.body.replyToken
           /\ replies[1].replyToken = ReplyToken(userId)
    /\ (pc = "done" /\ response # 200) => replies = <<>>

\* a message of U2 with a command and a new task was answered once, with the results
C30_Witness ==
    /\ pc = "done" /\ userId = "U2" /\ Len(replies) = 1
    /\ replies[1].kind = "results" /\ replies[1].replyToken = "token2"
    /\ \E k \in 1..Len(ops) : ops[k].op = "update"
    /\ \E k \in 1..Len(ops) : ops[k].op = "insert"

====
